---- MODULE Spec2Model ----
(***************************************************************************)
(* Model of langflow's Graph (src/backend/langflow/graph/graph/base.py):   *)
(* construction of a graph from a {nodes, edges} payload with inlining of  *)
(* nested "flow" nodes, edge registration, LLM -> Toolkit injection and    *)
(* pruning; root resolution and build(); from_root_node / traverse_graph.  *)
(*                                                                         *)
(* Vertices and edges are mutable Python objects with identity.  They live *)
(* in two heaps: V[v] is the vertex object with reference v (1..Len(V)),   *)
(* E[e] the edge object with reference e.  Reference 0 is Python's None.   *)
(***************************************************************************)
EXTENDS Integers, Sequences, FiniteSets, TLC

(***************************************************************************)
(* Bounds of the explored inputs.                                          *)
(***************************************************************************)
\* node descriptors plus edge descriptors of a payload, over all nesting levels
MaxSize == 4
\* the same, for payloads whose node descriptors carry type tags
MaxTyped == 3

\* Python's None, as a reference
None == 0

\* the names node descriptors and edge descriptors take their ids from.  Ids
\* are opaque strings that the code only compares for equality, so a new id
\* is always the first name of IdOrder that no node descriptor has yet.
IdOrder == <<"a", "b", "c", "d", "e", "f">>
Ids == {IdOrder[k] : k \in DOMAIN IdOrder}

(***************************************************************************)
(* Collaborators of base.py that are imported, not defined, there.         *)
(***************************************************************************)
\* langflow.interface.tools.constants.FILE_TOOLS: the "file-tool" type tags
FILE_TOOLS == {"JsonSpec"}

\* langflow.graph.graph.constants.VERTEX_TYPE_MAP: type tag -> vertex variant
VERTEX_TYPE_MAP ==
    [t \in {"OpenAI", "JsonToolkit", "Connector", "JsonSpec"} |->
        CASE t = "OpenAI"      -> "LLMVertex"
          [] t = "JsonToolkit" -> "ToolkitVertex"
          [] t = "Connector"   -> "ConnectorVertex"
          [] t = "JsonSpec"    -> "ToolVertex"]

\* Vertex.__eq__: two vertex objects compare equal when their ids are equal
VertexEq(V, v, w) == V[v].id = V[w].id

\* Vertex.__init__: a fresh vertex wrapping its raw descriptor
NewVertex(node, cls) ==
    [id     |-> node.id,
     cls    |-> cls,
     data   |-> [id |-> node.id, type |-> node.type, lc |-> node.lc],
     edges  |-> <<>>,
     params |-> <<>>,
     accepts |-> node.accepts]

\* Vertex._build_params: materialises the parameters from the descriptor alone
\* (no descriptor parameter is modelled, so the mapping starts empty)
BuildParams(vx) == [vx EXCEPT !.params = <<>>]

\* Edge.__init__
NewEdge(source, target) == [source |-> source, target |-> target]

\* Edge.__eq__ / __hash__: an edge is defined by its two endpoint objects,
\* whatever their order
EdgeEq(E, e, f) ==
    {E[e].source, E[e].target} = {E[f].source, E[f].target}

\* langflow.utils.payload.get_root_node: the first vertex of the sequence
\* that is the source of no edge; None when every vertex is a source
get_root_node(E, nodes, edges) ==
    LET sources == {E[edges[i]].source : i \in DOMAIN edges}
        cand == {i \in DOMAIN nodes : nodes[i] \notin sources}
    IN IF cand = {} THEN None
       ELSE nodes[CHOOSE i \in cand : \A j \in cand : i <= j]

(***************************************************************************)
(* Errors.                                                                 *)
(***************************************************************************)
NoErr == [kind |-> "none", msg |-> "", id |-> ""]
ValueError(msg, id) == [kind |-> "ValueError", msg |-> msg, id |-> id]
AttributeError(msg) == [kind |-> "AttributeError", msg |-> msg, id |-> ""]

(***************************************************************************)
(* Graph._get_node_class                                                   *)
(***************************************************************************)
_get_node_class(node_type, node_lc_type) ==
    IF node_type \in FILE_TOOLS THEN "FileToolVertex"
    ELSE IF node_type \in DOMAIN VERTEX_TYPE_MAP THEN VERTEX_TYPE_MAP[node_type]
    ELSE IF node_lc_type \in DOMAIN VERTEX_TYPE_MAP THEN VERTEX_TYPE_MAP[node_lc_type]
    ELSE "Vertex"

\* "flow" in node["data"]["node"]
HasFlow(node) == node.flow # <<>>

(***************************************************************************)
(* Graph.get_node: the first vertex of the sequence with that id, or None  *)
(***************************************************************************)
get_node(V, nodes, node_id) ==
    LET hit == {i \in DOMAIN nodes : V[nodes[i]].id = node_id}
    IN IF hit = {} THEN None
       ELSE nodes[CHOOSE i \in hit : \A j \in hit : i <= j]

(***************************************************************************)
(* Graph._build_nodes, the loop after expand_flow_nodes: one vertex per    *)
(* remaining descriptor whose type is not "flow".                          *)
(* Returns the grown heap, the new references and the connector flag.      *)
(***************************************************************************)
RECURSIVE BuildNodesLoop(_, _, _, _)
BuildNodesLoop(V, descs, acc, flag) ==
    IF descs = <<>> THEN [V |-> V, nodes |-> acc, has_connectors |-> flag]
    ELSE LET node == Head(descs)
         IN IF node.type = "flow"
            THEN BuildNodesLoop(V, Tail(descs), acc, flag)
            ELSE LET VertexClass == _get_node_class(node.type, node.lc)
                 IN BuildNodesLoop(Append(V, NewVertex(node, VertexClass)),
                                   Tail(descs),
                                   Append(acc, Len(V) + 1),
                                   flag \/ VertexClass = "ConnectorVertex")

(***************************************************************************)
(* Graph._build_edges: resolves each descriptor against self.nodes and     *)
(* raises at the first descriptor with a missing endpoint.                 *)
(***************************************************************************)
RECURSIVE BuildEdgesLoop(_, _, _, _, _)
BuildEdgesLoop(V, E, nodes, descs, acc) ==
    IF descs = <<>> THEN [err |-> NoErr, E |-> E, edges |-> acc]
    ELSE LET edge == Head(descs)
             source == get_node(V, nodes, edge.source)
             target == get_node(V, nodes, edge.target)
         IN IF source = None
            THEN [err |-> ValueError("Source node not found", edge.source),
                  E |-> E, edges |-> acc]
            ELSE IF target = None
            THEN [err |-> ValueError("Target node not found", edge.target),
                  E |-> E, edges |-> acc]
            ELSE BuildEdgesLoop(V, Append(E, NewEdge(source, target)), nodes,
                                Tail(descs), Append(acc, Len(E) + 1))

\* a lenient variant that drops a descriptor with a missing endpoint instead
\* of raising
RECURSIVE BuildEdgesLenient(_, _, _, _, _)
BuildEdgesLenient(V, E, nodes, descs, acc) ==
    IF descs = <<>> THEN [err |-> NoErr, E |-> E, edges |-> acc]
    ELSE LET edge == Head(descs)
             source == get_node(V, nodes, edge.source)
             target == get_node(V, nodes, edge.target)
         IN IF source = None \/ target = None
            THEN BuildEdgesLenient(V, E, nodes, Tail(descs), acc)
            ELSE BuildEdgesLenient(V, Append(E, NewEdge(source, target)), nodes,
                                   Tail(descs), Append(acc, Len(E) + 1))

_build_edges_lenient(V, E, nodes, descs) ==
    BuildEdgesLenient(V, E, nodes, descs, <<>>)

_build_edges(V, E, nodes, descs) == BuildEdgesLoop(V, E, nodes, descs, <<>>)

(***************************************************************************)
(* Edge registration, base.py lines 90-96.  add_edge appends the edge to   *)
(* the vertex's incident edges; a vertex that does not accept registration *)
(* signals AttributeError, which the loop prints and suppresses: the rest  *)
(* of that iteration is skipped and the loop goes on.                      *)
(***************************************************************************)
add_edge(vx, e) == [vx EXCEPT !.edges = Append(@, e)]

RegisterOne(V, E, e) ==
    LET s == E[e].source
        t == E[e].target
    IN IF ~V[s].accepts THEN V
       ELSE LET V1 == [V EXCEPT ![s] = add_edge(V[s], e)]
            IN IF ~V1[t].accepts THEN V1
               ELSE [V1 EXCEPT ![t] = add_edge(V1[t], e)]

RECURSIVE RegisterEdges(_, _, _)
RegisterEdges(V, E, edges) ==
    IF edges = <<>> THEN V
    ELSE RegisterEdges(RegisterOne(V, E, Head(edges)), E, Tail(edges))

(***************************************************************************)
(* The LLM -> Toolkit hack, base.py lines 98-109.                          *)
(***************************************************************************)
\* a variant that keeps the first LLMVertex instead of the last
FirstLlmNode(V, nodes) ==
    LET hit == {i \in DOMAIN nodes : V[nodes[i]].cls = "LLMVertex"}
    IN IF hit = {} THEN None
       ELSE nodes[CHOOSE i \in hit : \A j \in hit : i <= j]

\* llm_node after the first loop: the last LLMVertex of self.nodes, or None
LlmNode(V, nodes) ==
    LET hit == {i \in DOMAIN nodes : V[nodes[i]].cls = "LLMVertex"}
    IN IF hit = {} THEN None
       ELSE nodes[CHOOSE i \in hit : \A j \in hit : j <= i]

InjectLlm(V, nodes) ==
    LET inSeq == {nodes[i] : i \in DOMAIN nodes}
        llm_node == LlmNode(V, nodes)
        V1 == [v \in DOMAIN V |-> IF v \in inSeq THEN BuildParams(V[v]) ELSE V[v]]
    IN [v \in DOMAIN V |->
          IF v \in inSeq /\ V1[v].cls = "ToolkitVertex"
          THEN [V1[v] EXCEPT !.params = ("llm" :> llm_node)]
          ELSE V1[v]]

(***************************************************************************)
(* Graph._validate_node and the pruning of base.py lines 111-116.          *)
(***************************************************************************)
_validate_node(vx) == Len(vx.edges) > 0

\* a variant without the exception for a single isolated vertex
PruneIsolated(V, nodes, edges) ==
    SelectSeq(nodes, LAMBDA v : _validate_node(V[v]))

Prune(V, nodes, edges) ==
    SelectSeq(nodes, LAMBDA v : _validate_node(V[v])
                                \/ (Len(nodes) = 1 /\ Len(edges) = 0))

(***************************************************************************)
(* Graph.__init__(graph_data=...) = Graph._build_nodes_and_edges, with     *)
(* Graph._build_nodes / expand_flow_nodes / expand_flow_node, which build  *)
(* the Graph of every nested flow recursively.  V and E are the heaps when *)
(* the constructor is entered; the new graph's own sequences start empty.  *)
(* The result records, besides the graph's attributes, the vertex sequence *)
(* as it stands before pruning (constructed), the list _build_edges built  *)
(* (built_edges) and the local variables of this graph's own calls of      *)
(* expand_flow_node (inlined).                                             *)
(* expand_flow_nodes removes every flow descriptor it has expanded from    *)
(* the list it is given, which is the caller's graph_data["nodes"]; the    *)
(* result records the caller's graph_data as the constructor leaves it     *)
(* (data), also when it raises.                                            *)
(* Each step hands its result to the next one as a parameter.              *)
(***************************************************************************)
RECURSIVE BuildGraph(_, _, _)
RECURSIVE expand_flow_nodes(_, _, _, _, _, _, _)

\* the constructor raised err in step stage ("root": root resolution of a
\* flow's subgraph, "edges": _build_edges) of the graph level levels below
Failed(err, V, E, stage, level, data) ==
    [err |-> err, V |-> V, E |-> E, nodes |-> <<>>, edges |-> <<>>,
     has_connectors |-> FALSE, constructed |-> <<>>, built_edges |-> <<>>,
     inlined |-> <<>>, stage |-> stage, level |-> level, data |-> data]

\* what expand_flow_nodes hands back: self.nodes and self.edges so far, and
\* the list it was given as it leaves it (left)
Expanded(err, V, E, nodes, edges, inlined, stage, level, left) ==
    [err |-> err, V |-> V, E |-> E, nodes |-> nodes, edges |-> edges,
     inlined |-> inlined, stage |-> stage, level |-> level, left |-> left]

\* the list when expand_flow_node raises for node: the descriptors kept so
\* far, node itself, whose nested list its subgraph's constructor has
\* worked on, and the descriptors not visited yet
LeftAt(kept, node, subgraph, rest) ==
    kept \o <<[node EXCEPT !.flow = <<subgraph.data>>]>> \o rest

(***************************************************************************)
(* Graph.expand_flow_node, lines 227-247: with subgraph_root resolved, the *)
(* root takes the flow node's id and the subgraph's edges that touch the   *)
(* root (Vertex.__eq__) have each end whose id is old_id set to the root.  *)
(* old_id is read from the root before the test for None, so a subgraph    *)
(* without a root ends in AttributeError, not in the ValueError.           *)
(***************************************************************************)
RepointEdges(V1, E, edges, subgraph_root, old_id) ==
    [e \in DOMAIN E |->
       IF /\ e \in {edges[i] : i \in DOMAIN edges}
          /\ \/ VertexEq(V1, E[e].source, subgraph_root)
             \/ VertexEq(V1, E[e].target, subgraph_root)
       THEN [source |-> IF V1[E[e].source].id = old_id
                        THEN subgraph_root ELSE E[e].source,
             target |-> IF V1[E[e].target].id = old_id
                        THEN subgraph_root ELSE E[e].target]
       ELSE E[e]]

\* a variant that leaves the root's id alone
KeepRootId(V, subgraph_root, flow_id) == V

RenameRoot(V, subgraph_root, flow_id) ==
    [V EXCEPT ![subgraph_root].id = flow_id]

InlineRootAt(sub, flow_id, subgraph_root) ==
    IF subgraph_root = None
    THEN [err |-> AttributeError("'NoneType' object has no attribute 'id'"),
          V |-> sub.V, E |-> sub.E, root |-> None, old_id |-> ""]
    ELSE [err |-> NoErr,
          V |-> RenameRoot(sub.V, subgraph_root, flow_id),
          E |-> RepointEdges(RenameRoot(sub.V, subgraph_root, flow_id),
                             sub.E, sub.edges, subgraph_root,
                             sub.V[subgraph_root].id),
          root |-> subgraph_root,
          old_id |-> sub.V[subgraph_root].id]

InlineRoot(sub, flow_id) ==
    InlineRootAt(sub, flow_id, get_root_node(sub.E, sub.nodes, sub.edges))

\* expand_flow_node, lines 249-251, and the rest of expand_flow_nodes' loop
ExtendWith(r, subgraph, node, rest, kept, nodes, edges, inlined) ==
    IF r.err # NoErr
    THEN Expanded(r.err, r.V, r.E, nodes, edges, inlined, "root", 0,
                  LeftAt(kept, node, subgraph, rest))
    ELSE expand_flow_nodes(r.V, r.E, rest, kept,
                           nodes \o subgraph.nodes, edges \o subgraph.edges,
                           Append(inlined, [flow_id |-> node.id, root |-> r.root,
                                            old_id |-> r.old_id]))

\* expand_flow_node for the flow node `node`, whose Graph is subgraph
expand_flow_node(subgraph, node, rest, kept, nodes, edges, inlined) ==
    IF subgraph.err # NoErr
    THEN Expanded(subgraph.err, subgraph.V, subgraph.E, nodes, edges, inlined,
                  subgraph.stage, subgraph.level + 1,
                  LeftAt(kept, node, subgraph, rest))
    ELSE ExtendWith(InlineRoot(subgraph, node.id), subgraph, node, rest,
                    kept, nodes, edges, inlined)

\* expand_flow_nodes: descs are the descriptors still to visit, kept those
\* visited that stay in the list (an expanded flow descriptor is removed),
\* nodes/edges the graph's self.nodes/self.edges so far
expand_flow_nodes(V, E, descs, kept, nodes, edges, inlined) ==
    IF descs = <<>>
    THEN Expanded(NoErr, V, E, nodes, edges, inlined, "", 0, kept)
    ELSE IF ~HasFlow(Head(descs))
    THEN expand_flow_nodes(V, E, Tail(descs), Append(kept, Head(descs)),
                           nodes, edges, inlined)
    ELSE expand_flow_node(BuildGraph(V, E, Head(descs).flow[1]), Head(descs),
                          Tail(descs), kept, nodes, edges, inlined)

\* _build_nodes_and_edges, lines 98-116: injection and pruning
Finish(V, E, nodes, edges, built_edges, flag, inlined, data) ==
    [err |-> NoErr, V |-> V, E |-> E,
     nodes |-> Prune(V, nodes, edges),
     edges |-> edges,
     has_connectors |-> flag,
     constructed |-> nodes,
     built_edges |-> built_edges,
     inlined |-> inlined,
     stage |-> "ready", level |-> 0, data |-> data]

\* _build_nodes_and_edges, lines 89-96, with be the outcome of _build_edges
WithEdges(x, bn, be, nodes, data) ==
    IF be.err # NoErr
    THEN [Failed(be.err, bn.V, be.E, "edges", 0, data) EXCEPT
             !.constructed = nodes, !.built_edges = be.edges,
             !.inlined = x.inlined]
    ELSE Finish(InjectLlm(RegisterEdges(bn.V, be.E, x.edges \o be.edges), nodes),
                be.E, nodes, x.edges \o be.edges, be.edges,
                bn.has_connectors, x.inlined, data)

\* _build_nodes_and_edges, line 88, with bn the vertices _build_nodes built
\* and data the graph_data as expand_flow_nodes left it
WithNodes(x, bn, data) ==
    WithEdges(x, bn,
              _build_edges(bn.V, x.E, x.nodes \o bn.nodes, data.edges),
              x.nodes \o bn.nodes, data)

\* _build_nodes, lines 186-202, with x the outcome of expand_flow_nodes:
\* the loop runs over self._nodes, the list expand_flow_nodes worked on
_build_nodes(x, graph_data) ==
    IF x.err # NoErr
    THEN Failed(x.err, x.V, x.E, x.stage, x.level,
                [nodes |-> x.left, edges |-> graph_data.edges])
    ELSE WithNodes(x, BuildNodesLoop(x.V, x.left, <<>>, FALSE),
                   [nodes |-> x.left, edges |-> graph_data.edges])

BuildGraph(V, E, graph_data) ==
    _build_nodes(expand_flow_nodes(V, E, graph_data.nodes, <<>>, <<>>, <<>>,
                                   <<>>),
                 graph_data)

(***************************************************************************)
(* Graph.traverse_graph: depth-first search with an explicit stack.        *)
(* visited_nodes is a Python set of vertices, hashed by identity;          *)
(* visited_edges is a set of edges, which are equal when their endpoints   *)
(* are (EdgeEq), so it keeps the first of several equal edges.  The other  *)
(* end of an edge is chosen with Vertex.__eq__.                            *)
(***************************************************************************)
\* the inner loop over node.edges: returns the grown stack and visited_edges
RECURSIVE VisitEdges(_, _, _, _, _)
VisitEdges(V, E, node, es, acc) ==
    IF es = <<>> THEN acc
    ELSE LET edge == Head(es)
         IN IF \E f \in acc.visited_edges : EdgeEq(E, edge, f)
            THEN VisitEdges(V, E, node, Tail(es), acc)
            ELSE VisitEdges(V, E, node, Tail(es),
                   [stack |-> Append(acc.stack,
                                     IF ~VertexEq(V, E[edge].source, node)
                                     THEN E[edge].source ELSE E[edge].target),
                    visited_edges |-> acc.visited_edges \cup {edge}])

RECURSIVE TraverseLoop(_, _, _, _, _)
TraverseLoop(V, E, stack, visited_nodes, visited_edges) ==
    IF stack = <<>> THEN [nodes |-> visited_nodes, edges |-> visited_edges]
    ELSE LET node == stack[Len(stack)]
             rest == SubSeq(stack, 1, Len(stack) - 1)
         IN IF node \in visited_nodes
            THEN TraverseLoop(V, E, rest, visited_nodes, visited_edges)
            ELSE LET r == VisitEdges(V, E, node, V[node].edges,
                                     [stack |-> rest, visited_edges |-> visited_edges])
                 IN TraverseLoop(V, E, r.stack, visited_nodes \cup {node},
                                 r.visited_edges)

traverse_graph(V, E, root_node) == TraverseLoop(V, E, <<root_node>>, {}, {})

(***************************************************************************)
(* Graph.from_root_node: Graph(nodes=..., edges=...) of the traversal.     *)
(* __init__ assigns self.nodes and self.edges only when both lists are     *)
(* non-empty; otherwise the new Graph has neither attribute.  The order of *)
(* list(set) is unspecified, so the view keeps the two collections as sets.*)
(***************************************************************************)
from_root_node(V, E, root_node) ==
    LET t == traverse_graph(V, E, root_node)
    IN IF t.nodes # {} /\ t.edges # {}
       THEN [has_attrs |-> TRUE, nodes |-> t.nodes, edges |-> t.edges,
             root |-> root_node]
       ELSE [has_attrs |-> FALSE, nodes |-> {}, edges |-> {}, root |-> root_node]

(***************************************************************************)
(* Inputs.  The caller assembles graph_data, a nested payload, one node    *)
(* descriptor or edge descriptor at a time, at the top level or inside the *)
(* payload of a flow node, and then constructs the Graph from it.          *)
(***************************************************************************)
\* the tags of a node descriptor: primary type tag, template "_type", and
\* whether the vertex built from it accepts edge registration
StructTags == {<<"Unknown", "Unknown", TRUE>>}
TypedTags ==
    {<<"Unknown", "Unknown", TRUE>>,     \* no variant known: generic Vertex
     <<"OpenAI", "Unknown", TRUE>>,      \* primary tag in the type map
     <<"Custom", "JsonToolkit", TRUE>>,  \* only the secondary tag in the map
     <<"Connector", "Unknown", TRUE>>,
     <<"JsonSpec", "OpenAI", TRUE>>,     \* a file tool, whatever the map says
     <<"flow", "", TRUE>>,               \* typed "flow" without a nested payload
     <<"Unknown", "Unknown", FALSE>>}    \* generic, rejects registration

EmptyPayload == [nodes |-> <<>>, edges |-> <<>>]

EdgeDescs == [source : Ids, target : Ids]

PlainDescs(tags) ==
    {[id |-> i, type |-> t[1], lc |-> t[2], accepts |-> t[3], flow |-> <<>>] :
        i \in Ids, t \in tags}

\* a flow node: its "node" object holds a "flow" key with the nested payload
FlowDesc(i, p) ==
    [id |-> i, type |-> "flow", lc |-> "", accepts |-> TRUE, flow |-> <<p>>]

NodeDescs(tags) == PlainDescs(tags) \cup {FlowDesc(i, EmptyPayload) : i \in Ids}

RECURSIVE SumSeq(_)
SumSeq(s) == IF s = <<>> THEN 0 ELSE Head(s) + SumSeq(Tail(s))

RECURSIVE NodeCount(_)
NodeCount(p) ==
    Len(p.nodes)
    + SumSeq([k \in DOMAIN p.nodes |->
                IF HasFlow(p.nodes[k]) THEN NodeCount(p.nodes[k].flow[1]) ELSE 0])

RECURSIVE EdgeCount(_)
EdgeCount(p) ==
    Len(p.edges)
    + SumSeq([k \in DOMAIN p.nodes |->
                IF HasFlow(p.nodes[k]) THEN EdgeCount(p.nodes[k].flow[1]) ELSE 0])

FlowIndexes(p) == {k \in DOMAIN p.nodes : HasFlow(p.nodes[k])}

\* the ids of a payload's node descriptors, at every level
RECURSIVE NodeIds(_)
NodeIds(p) ==
    {p.nodes[k].id : k \in DOMAIN p.nodes}
    \cup UNION {NodeIds(p.nodes[k].flow[1]) : k \in FlowIndexes(p)}

\* the first name that is not among used (none when all are)
NextNames(used) ==
    LET free == {k \in DOMAIN IdOrder : IdOrder[k] \notin used}
    IN IF free = {} THEN {}
       ELSE {IdOrder[CHOOSE k \in free : \A j \in free : k <= j]}

\* the ids a new descriptor may mention: those of the node descriptors and
\* one more
Nameable(p) == NodeIds(p) \cup NextNames(NodeIds(p))

\* the payloads that p becomes when d is appended to one of its node lists
RECURSIVE WithNode(_, _)
WithNode(p, d) ==
    {[p EXCEPT !.nodes = Append(@, d)]}
    \cup UNION {{[p EXCEPT !.nodes[k].flow = <<q>>] :
                    q \in WithNode(p.nodes[k].flow[1], d)} : k \in FlowIndexes(p)}

\* the payloads that p becomes when ed is appended to one of its edge lists
RECURSIVE WithEdge(_, _)
WithEdge(p, ed) ==
    {[p EXCEPT !.edges = Append(@, ed)]}
    \cup UNION {{[p EXCEPT !.nodes[k].flow = <<q>>] :
                    q \in WithEdge(p.nodes[k].flow[1], ed)} : k \in FlowIndexes(p)}

(***************************************************************************)
(* The state machine.                                                      *)
(***************************************************************************)
VARIABLES
    payload,   \* the graph_data handed to Graph(graph_data=...)
    phase,     \* "raw", "ready" (constructed) or "failed" (constructor raised)
    error,     \* the exception the last operation raised, NoErr if none
    V, E,      \* the vertex and edge heaps
    g,         \* the constructed Graph: nodes, edges, has_connectors, ...
    view,      \* the Graph the last from_root_node returned
    built,     \* outcome of the last build(): "", "built" or "raised"
    given,     \* graph_data as it was when the constructor was called
    more       \* the list handed to a later expand_flow_nodes, as that left it

vars == <<payload, phase, error, V, E, g, view, built, given, more>>

NoGraph == [nodes |-> <<>>, edges |-> <<>>, has_connectors |-> FALSE,
            constructed |-> <<>>, built_edges |-> <<>>, inlined |-> <<>>,
            stage |-> "raw", level |-> 0]
NoView == [has_attrs |-> FALSE, nodes |-> {}, edges |-> {}, root |-> None]

Init ==
    /\ payload = EmptyPayload
    /\ phase = "raw"
    /\ error = NoErr
    /\ V = <<>>
    /\ E = <<>>
    /\ g = NoGraph
    /\ view = NoView
    /\ built = ""
    /\ given = EmptyPayload
    /\ more = <<>>

\* the caller adds a node descriptor (a generic node or an empty flow node)
\* whose id is that of an earlier node descriptor or a new one
AddNode ==
    /\ phase = "raw"
    /\ NodeCount(payload) + EdgeCount(payload) < MaxSize
    /\ \E d \in NodeDescs(StructTags) :
          /\ d.id \in Nameable(payload)
          /\ payload' \in WithNode(payload, d)
    /\ UNCHANGED <<phase, error, V, E, g, view, built, given, more>>

\* the caller adds a node descriptor of any type, always under a new id
AddTypedNode ==
    /\ phase = "raw"
    /\ NodeCount(payload) + EdgeCount(payload) < MaxTyped
    /\ \E d \in NodeDescs(TypedTags) :
          /\ d.id \in NextNames(NodeIds(payload))
          /\ payload' \in WithNode(payload, d)
    /\ UNCHANGED <<phase, error, V, E, g, view, built, given, more>>

\* the caller adds an edge descriptor; each end is the id of a node
\* descriptor or an id that no node descriptor has
AddEdgeWithin(limit) ==
    /\ phase = "raw"
    /\ NodeCount(payload) + EdgeCount(payload) < limit
    /\ \E ed \in EdgeDescs :
          /\ ed.source \in Nameable(payload)
          /\ ed.target \in NodeIds(payload) \cup {ed.source}
                           \cup NextNames(NodeIds(payload) \cup {ed.source})
          /\ payload' \in WithEdge(payload, ed)
    /\ UNCHANGED <<phase, error, V, E, g, view, built, given, more>>

AddEdge == AddEdgeWithin(MaxSize)
AddTypedEdge == AddEdgeWithin(MaxTyped)

\* Graph(graph_data=payload); payload is the caller's dict, whose node
\* lists the constructor edits in place
Construct ==
    /\ phase = "raw"
    /\ LET r == BuildGraph(<<>>, <<>>, payload)
       IN /\ phase' = IF r.err = NoErr THEN "ready" ELSE "failed"
          /\ error' = r.err
          /\ V' = r.V
          /\ E' = r.E
          /\ g' = [nodes |-> r.nodes, edges |-> r.edges,
                   has_connectors |-> r.has_connectors,
                   constructed |-> r.constructed,
                   built_edges |-> r.built_edges, inlined |-> r.inlined,
                   stage |-> r.stage, level |-> r.level]
          /\ payload' = r.data
    /\ given' = payload
    /\ UNCHANGED <<view, built, more>>

\* the lists a caller hands to expand_flow_nodes once the graph stands: a
\* flow node, alone or after a plain node, over three nested payloads.
\* Their ids are new to the graph.
PlainNode(i) ==
    [id |-> i, type |-> "Unknown", lc |-> "Unknown", accepts |-> TRUE,
     flow |-> <<>>]
MorePayloads ==
    {EmptyPayload,
     [nodes |-> <<PlainNode("r")>>, edges |-> <<>>],
     [nodes |-> <<PlainNode("x"), PlainNode("r")>>,
      edges |-> <<[source |-> "x", target |-> "r"]>>]}
MoreFlows == {FlowDesc("m", q) : q \in MorePayloads}
MoreLists == {<<f>> : f \in MoreFlows} \cup {<<PlainNode("p"), f>> : f \in MoreFlows}

\* what a call of expand_flow_nodes / expand_flow_node on the constructed
\* graph leaves: self.nodes and self.edges grown by the inlined subgraphs,
\* with no registration, injection or pruning
Extended(r) ==
    /\ phase' = "extended"
    /\ error' = r.err
    /\ V' = r.V
    /\ E' = r.E
    /\ g' = [g EXCEPT !.nodes = r.nodes, !.edges = r.edges,
                      !.stage = IF r.err = NoErr THEN "extended" ELSE r.stage,
                      !.level = r.level]

\* g.expand_flow_nodes(l), at most once for a graph.  build() and
\* from_root_node() leave the graph as it is, so only those that come after
\* the call are followed.
ExpandFlowNodes(l) ==
    /\ phase = "ready" /\ built = "" /\ view = NoView
    /\ Extended(expand_flow_nodes(V, E, l, <<>>, g.nodes, g.edges, <<>>))
    /\ more' = expand_flow_nodes(V, E, l, <<>>, g.nodes, g.edges, <<>>).left
    /\ UNCHANGED <<payload, view, built, given>>

\* g.expand_flow_node(f), at most once for a graph
ExpandFlowNode(f) ==
    /\ phase = "ready" /\ built = "" /\ view = NoView
    /\ Extended(expand_flow_node(BuildGraph(V, E, f.flow[1]), f, <<>>, <<>>,
                                 g.nodes, g.edges, <<>>))
    /\ UNCHANGED <<payload, view, built, given, more>>

\* Graph.build(): root resolution, then the root's own build (opaque)
Build ==
    /\ phase \in {"ready", "extended"}
    /\ built = ""
    /\ LET root_node == get_root_node(E, g.nodes, g.edges)
       IN IF root_node = None
          THEN /\ error' = ValueError("No root node found", "")
               /\ built' = "raised"
          ELSE /\ error' = NoErr
               /\ built' = "built"
    /\ UNCHANGED <<payload, phase, V, E, g, view, given, more>>

\* Graph.from_root_node(root) for a vertex of the constructed graph
FromRootNode(root) ==
    /\ phase \in {"ready", "extended"}
    /\ view = NoView
    /\ view' = from_root_node(V, E, root)
    /\ UNCHANGED <<payload, phase, error, V, E, g, built, given, more>>

Next ==
    \/ AddNode
    \/ AddEdge
    \/ Construct
    \/ Build
    \/ \E i \in DOMAIN g.nodes : FromRootNode(g.nodes[i])
    \/ \E l \in MoreLists : ExpandFlowNodes(l)
    \/ \E f \in MoreFlows : ExpandFlowNode(f)

Spec == Init /\ [][Next]_vars

\* the same machine over typed inputs
NextTyped ==
    \/ AddTypedNode
    \/ AddTypedEdge
    \/ Construct
    \/ Build
    \/ \E i \in DOMAIN g.nodes : FromRootNode(g.nodes[i])
    \/ \E l \in MoreLists : ExpandFlowNodes(l)
    \/ \E f \in MoreFlows : ExpandFlowNode(f)

SpecTyped == Init /\ [][NextTyped]_vars

(***************************************************************************)
(* Properties.                                                             *)
(***************************************************************************)
\* the top-level constructor got as far as its own _build_edges
EdgesStage == g.stage \in {"edges", "ready"} /\ g.level = 0

\* the vertices of the constructed (flow-expanded, pre-pruning) sequence
\* whose id is i, by position
WithId(i) == {k \in DOMAIN g.constructed : V[g.constructed[k]].id = i}
FirstWithId(i) == g.constructed[CHOOSE k \in WithId(i) : \A j \in WithId(i) : k <= j]

\* the top-level edge descriptors with an endpoint that matches no vertex
Dangling ==
    {k \in DOMAIN given.edges :
        WithId(given.edges[k].source) = {} \/ WithId(given.edges[k].target) = {}}
FirstDangling == CHOOSE k \in Dangling : \A j \in Dangling : k <= j

\* the descriptors 1..n each got exactly one Edge of their own, from the
\* resolved source vertex to the resolved target vertex
EdgesBuiltFor(n) ==
    /\ Len(g.built_edges) = n
    /\ \A k \in 1..n :
          /\ E[g.built_edges[k]].source = FirstWithId(given.edges[k].source)
          /\ E[g.built_edges[k]].target = FirstWithId(given.edges[k].target)
          /\ \A j \in 1..n : j # k => g.built_edges[j] # g.built_edges[k]

\* C1: when the constructor reaches _build_edges, either every edge
\* descriptor resolves, and then construction succeeds and exactly one Edge
\* per descriptor, from the resolved source to the resolved target, was
\* appended to the graph's edges; or construction aborts at the first
\* descriptor with a missing endpoint with a ValueError naming the missing id
\* (the source id when the source is missing, otherwise the target id), and
\* no Edge was created for that descriptor.
C1_DanglingEdgeAborts ==
    EdgesStage =>
        IF Dangling = {}
        THEN /\ phase = "ready" /\ g.stage = "ready"
             /\ EdgesBuiltFor(Len(given.edges))
             /\ Len(g.edges) >= Len(g.built_edges)
             /\ SubSeq(g.edges, Len(g.edges) - Len(g.built_edges) + 1,
                       Len(g.edges)) = g.built_edges
        ELSE /\ phase = "failed" /\ g.stage = "edges"
             /\ error = (IF WithId(given.edges[FirstDangling].source) = {}
                         THEN ValueError("Source node not found",
                                         given.edges[FirstDangling].source)
                         ELSE ValueError("Target node not found",
                                         given.edges[FirstDangling].target))
             /\ EdgesBuiltFor(FirstDangling - 1)

\* a construction that built an Edge and then aborted at a descriptor whose
\* source resolves and whose target does not
C1_Witness ==
    /\ EdgesStage /\ phase = "failed"
    /\ Len(g.built_edges) = 1
    /\ error.msg = "Target node not found"

\* the ids of all node descriptors of a payload, nested payloads included
RECURSIVE FlatIds(_)
RECURSIVE FlatIdsOf(_)
FlatIdsOf(descs) ==
    IF descs = <<>> THEN <<>>
    ELSE <<Head(descs).id>>
         \o (IF HasFlow(Head(descs)) THEN FlatIds(Head(descs).flow[1]) ELSE <<>>)
         \o FlatIdsOf(Tail(descs))
FlatIds(p) == FlatIdsOf(p.nodes)

\* no id is given to two node descriptors, at whatever nesting levels
DistinctIds ==
    \A i, j \in DOMAIN FlatIds(given) :
        i # j => FlatIds(given)[i] # FlatIds(given)[j]

\* ids are unique within the node list of each nesting level
RECURSIVE LevelDistinct(_)
LevelDistinct(p) ==
    /\ \A i, j \in DOMAIN p.nodes : i # j => p.nodes[i].id # p.nodes[j].id
    /\ \A k \in FlowIndexes(p) : LevelDistinct(p.nodes[k].flow[1])

\* the top-level flow nodes, in payload order: the j-th is the one the j-th
\* call of expand_flow_node inlined
TopFlows == SelectSeq(given.nodes, HasFlow)

\* k is a top-level edge descriptor A -> F with A a top-level node that a
\* vertex is built from and F the j-th top-level flow node
BindsFlow(k, j) ==
    /\ given.edges[k].target = TopFlows[j].id
    /\ \E a \in DOMAIN given.nodes :
          /\ ~HasFlow(given.nodes[a])
          /\ given.nodes[a].type # "flow"
          /\ given.nodes[a].id = given.edges[k].source

\* the graph has an edge from the vertex built from descriptor a_id to vertex r
HasEdgeFromTo(a_id, r) ==
    \E i \in DOMAIN g.edges :
        /\ V[E[g.edges[i]].source].data.id = a_id
        /\ E[g.edges[i]].target = r

\* what C2 says of the edge descriptor k and the flow node j it points to
RootBound(k, j) ==
    /\ V[g.inlined[j].root].id = TopFlows[j].id
    /\ WithId(TopFlows[j].id) # {}
    /\ FirstWithId(TopFlows[j].id) = g.inlined[j].root
    /\ \A i \in DOMAIN g.constructed :
          /\ V[g.constructed[i]].data.id # TopFlows[j].id
          /\ V[g.constructed[i]].id # g.inlined[j].old_id
    /\ phase = "ready" =>
          /\ HasEdgeFromTo(given.edges[k].source, g.inlined[j].root)
          /\ \E i \in DOMAIN g.nodes : g.nodes[i] = g.inlined[j].root

\* C2 (as the specification states it): for an edge A -> F of the parent
\* payload, F a flow node whose subgraph root R had id r0, the constructed
\* graph has an edge from A's vertex to the inlined root, whose id is F's,
\* no vertex is built for F itself and no vertex with id r0 remains.  Ids
\* are taken to be unique within each nesting level and r0 to differ from
\* F's id.
C2_FlowEdgeRebound ==
    (EdgesStage /\ LevelDistinct(given)) =>
        \A k \in DOMAIN given.edges : \A j \in DOMAIN TopFlows :
            (BindsFlow(k, j) /\ g.inlined[j].old_id # TopFlows[j].id)
                => RootBound(k, j)

\* C2 (amended): the same, for payloads that give every node descriptor, at
\* whatever nesting level, an id of its own.
C2_FlowEdgeReboundDistinct ==
    (EdgesStage /\ DistinctIds) =>
        \A k \in DOMAIN given.edges : \A j \in DOMAIN TopFlows :
            BindsFlow(k, j) => RootBound(k, j)

\* a constructed graph of a payload with distinct ids and an edge A -> F
C2_Witness ==
    /\ phase = "ready" /\ DistinctIds
    /\ \E k \in DOMAIN given.edges : \E j \in DOMAIN TopFlows :
          /\ BindsFlow(k, j)
          /\ HasEdgeFromTo(given.edges[k].source, g.inlined[j].root)

\* C3: for a payload whose ids are unique within each nesting level, no two
\* vertices of the constructed graph's vertex sequence have the same id.
C3_UniqueIdsAfterExpansion ==
    (phase = "ready" /\ LevelDistinct(given)) =>
        \A i, j \in DOMAIN g.nodes :
            i # j => V[g.nodes[i]].id # V[g.nodes[j]].id

\* the vertices of a sequence of references
Members(nodes) == {nodes[i] : i \in DOMAIN nodes}

\* C4: every edge of a constructed graph has its source and its target in
\* the graph's vertex sequence, whatever the outcome of edge registration.
C4_EdgeEndpointsInGraph ==
    phase = "ready" =>
        \A i \in DOMAIN g.edges :
            /\ E[g.edges[i]].source \in Members(g.nodes)
            /\ E[g.edges[i]].target \in Members(g.nodes)

\* the vertices of the constructed sequence of one variant, by position
OfClass(cls) == {i \in DOMAIN g.constructed : V[g.constructed[i]].cls = cls}

\* C5: when the constructed sequence holds no LLM vertex, no Toolkit vertex
\* has an "llm" entry in its parameters.
C5_NoLlmNoEntry ==
    (phase = "ready" /\ OfClass("LLMVertex") = {}) =>
        \A i \in OfClass("ToolkitVertex") :
            "llm" \notin DOMAIN V[g.constructed[i]].params

\* C6: when the constructed sequence holds an LLM vertex, every Toolkit
\* vertex of the sequence, inlined ones included, has as params["llm"] the
\* LLM vertex that comes last in the sequence, and construction succeeds.
C6_LastLlmInjected ==
    (g.stage = "ready" /\ OfClass("LLMVertex") # {}) =>
        /\ phase = "ready"
        /\ built = "" => error = NoErr
        /\ \A i \in OfClass("ToolkitVertex") :
              /\ DOMAIN V[g.constructed[i]].params = {"llm"}
              /\ \E l \in OfClass("LLMVertex") :
                    /\ \A m \in OfClass("LLMVertex") : m <= l
                    /\ V[g.constructed[i]].params["llm"] = g.constructed[l]

\* a constructed graph with two LLM vertices, then a Toolkit vertex
C6_Witness ==
    /\ g.stage = "ready"
    /\ Cardinality(OfClass("LLMVertex")) >= 2
    /\ \E i \in OfClass("ToolkitVertex") : \A l \in OfClass("LLMVertex") : l < i

\* the pruning rule proper: a vertex of the pre-pruning sequence is kept
\* exactly when an edge is registered on it or it is the only vertex of a
\* graph without edges; the kept vertices keep their relative order
PruningRule ==
    /\ \A i \in DOMAIN g.constructed :
          g.constructed[i] \in Members(g.nodes)
              <=> \/ V[g.constructed[i]].edges # <<>>
                  \/ (Len(g.constructed) = 1 /\ Len(g.edges) = 0)
    /\ g.nodes = SelectSeq(g.constructed, LAMBDA v : v \in Members(g.nodes))

\* every top-level node descriptor is one a vertex is built from
AllPlain ==
    \A a \in DOMAIN given.nodes :
        ~HasFlow(given.nodes[a]) /\ given.nodes[a].type # "flow"

\* C7 (as the specification states it): the pruning rule, and in particular
\* a payload with one node and no edges yields a graph with one vertex and a
\* payload with two or more nodes and no edges yields no vertex.
C7_PruningByDescriptors ==
    phase = "ready" =>
        /\ PruningRule
        /\ (Len(given.nodes) = 1 /\ given.edges = <<>>)
              => Len(g.nodes) = 1
        /\ (Len(given.nodes) >= 2 /\ given.edges = <<>>)
              => g.nodes = <<>>

\* C7 (amended): the pruning rule over the vertices and edges the graph has
\* before pruning; the two particular cases hold for payloads whose node
\* descriptors are neither flow nodes nor typed "flow", each of which
\* yields one vertex.
C7_PruningByVertices ==
    phase = "ready" =>
        /\ PruningRule
        /\ (AllPlain /\ Len(given.nodes) = 1 /\ given.edges = <<>>)
              => (Len(g.nodes) = 1 /\ V[g.nodes[1]].data.id = given.nodes[1].id)
        /\ (AllPlain /\ Len(given.nodes) >= 2 /\ given.edges = <<>>)
              => g.nodes = <<>>

\* a constructed graph in which pruning removed a vertex and kept another
C7_Witness ==
    /\ phase = "ready"
    /\ g.nodes # <<>>
    /\ Len(g.nodes) < Len(g.constructed)

\* C10: has_connectors is true exactly when the graph's vertex sequence
\* (taken before pruning) holds a connector vertex, inlined ones included.
C10_ConnectorFlag ==
    phase = "ready" => (g.has_connectors <=> OfClass("ConnectorVertex") # {})

\* the vertices at the ends of the edges registered on the vertices of S
Neighbours(S) ==
    UNION {UNION {{E[V[v].edges[i]].source, E[V[v].edges[i]].target} :
                     i \in DOMAIN V[v].edges} : v \in S}

\* the vertices reachable from those of S over incident edges
RECURSIVE Closure(_)
Closure(S) == IF Neighbours(S) \subseteq S THEN S ELSE Closure(S \cup Neighbours(S))

\* the edges incident to a vertex of S
IncidentTo(S) == UNION {{V[v].edges[i] : i \in DOMAIN V[v].edges} : v \in S}

\* C8: the Graph that from_root_node(root) returns has as nodes exactly the
\* vertices reachable from root over incident edges, root included, and as
\* edges exactly the edges incident to them (one of each group of equal
\* edges), also for a root without edges.
C8_TraversalClosure ==
    view.root # None =>
        /\ view.has_attrs
        /\ view.nodes = Closure({view.root})
        /\ view.edges \subseteq IncidentTo(Closure({view.root}))
        /\ \A e \in IncidentTo(Closure({view.root})) :
              \E f \in view.edges : EdgeEq(E, e, f)

\* C9: whenever root resolution yields no vertex, in build() or for the
\* subgraph of a flow node, the operation aborts with the error
\* "No root node found" and no other.
C9_RootResolutionError ==
    ((g.stage = "root" /\ built = "") \/ built = "raised") =>
        error = ValueError("No root node found", "")

====
